---- MODULE Spec2Model ----
(***************************************************************************)
(* TinyHook (src/tinyhook.py): the installed-package registry kept in the  *)
(* JSON file data/installed.json and the four commands hook, run, list and *)
(* remove that read and rewrite it.                                        *)
(*                                                                         *)
(* One action is one command-line invocation: the module-level            *)
(* init_db(INSTALLED_JSON), then the dispatch on args.command.  Invocations*)
(* are modelled without --version and without --sandbox.                   *)
(*                                                                         *)
(* The file on disk is kept as what the text denotes: its kind (missing,   *)
(* malformed, or the top-level JSON value), the key/value pairs as they    *)
(* are written in the text (a JSON text may repeat a key), the layout of   *)
(* the text, and the file's permissions.  json.load and json.dump are the  *)
(* conversions between that and the Python value.                          *)
(***************************************************************************)
EXTENDS Integers, Sequences, FiniteSets, TLC

\* ------------------------------------------------------------------------
\* Bounds and small input sets
\* ------------------------------------------------------------------------

\* longest key/value list of a registry file the model starts from
MaxInitLen == 2

\* how many invocations the wall clock is followed over
MaxClock == 3

\* package names given on the command line and found in starting files
Names == {"alpha", "beta"}

INSTALLED_JSON == "data/installed.json"
REPO_JSON == "repo.json"

\* ------------------------------------------------------------------------
\* Python values and dict operations
\* ------------------------------------------------------------------------

\* A dict is a sequence of <<key, value>> with distinct keys, in insertion
\* order (the order json.dump and dict.items() use).
Keys(d) == {d[i][1] : i \in DOMAIN d}

Lookup(d, k) == d[CHOOSE i \in DOMAIN d : d[i][1] = k][2]

\* mutation: the new entry replaces the dict instead of updating it
DictSetMutantReplace(d, k, v) == <<<<k, v>>>>
\* d[k] = v : an existing key keeps its position, a new key goes last
DictSet(d, k, v) ==
    IF k \in Keys(d)
    THEN [i \in DOMAIN d |-> IF d[i][1] = k THEN <<k, v>> ELSE d[i]]
    ELSE Append(d, <<k, v>>)

\* mutation: the dict is cleared instead of popping one key
DictPopMutantClear(d, k) == <<>>
\* a pop that drops the first entry, whatever its key
DictPopMutantFirst(d, k) == Tail(d)
\* d.pop(k) for k in d
DictPop(d, k) == SelectSeq(d, LAMBDA p : p[1] # k)

\* the dict as a mapping, order forgotten (Python's dict equality): the set
\* of its key/value pairs
AsMap(d) == {d[i] : i \in DOMAIN d}

PyDict(d) == [t |-> "dict", pairs |-> d, items |-> <<>>]
PyList(l) == [t |-> "list", pairs |-> <<>>, items |-> l]
PyNone == [t |-> "none", pairs |-> <<>>, items |-> <<>>]

\* mutation: the emptiness test is lost
TruthyMutantAlways(v) == TRUE
\* Python truthiness of a value: None, {} and [] are falsy
Truthy(v) ==
    CASE v.t = "dict" -> v.pairs # <<>>
      [] v.t = "list" -> v.items # <<>>
      [] OTHER -> FALSE

\* ------------------------------------------------------------------------
\* Files
\* ------------------------------------------------------------------------

MissingFile ==
    [kind |-> "missing", pairs |-> <<>>, items |-> <<>>, fmt |-> "none",
     r |-> TRUE, w |-> TRUE]

\* mutation: the dump is added to the pairs already in the file
JsonDumpMutantMerge(data, f) ==
    [kind |-> "object", pairs |-> f.pairs \o data.pairs, items |-> <<>>,
     fmt |-> "indent2", r |-> f.r, w |-> f.w]
\* a dump that stops before the first character
JsonDumpMutantNothing(data, f) ==
    [kind |-> "malformed", pairs |-> <<>>, items |-> <<>>, fmt |-> "none",
     r |-> f.r, w |-> f.w]
\* the text json.dump(data, f, indent=2) leaves in a file just opened "w"
json_dump(data, f) ==
    [kind |-> CASE data.t = "dict" -> "object"
                [] data.t = "list" -> "array"
                [] OTHER -> "null",
     pairs |-> data.pairs, items |-> data.items, fmt |-> "indent2",
     r |-> f.r, w |-> f.w]

\* object_pairs -> dict: a repeated key keeps its first position and its
\* last value
RECURSIVE FromPairs(_)
FromPairs(ps) ==
    IF ps = <<>> THEN <<>>
    ELSE LET n == Len(ps)
         IN DictSet(FromPairs(SubSeq(ps, 1, n - 1)), ps[n][1], ps[n][2])

\* with open(path, "r") as f: json.load(f) -- the exception or the value
json_load(f) ==
    CASE f.kind = "missing" -> [exc |-> "FileNotFoundError", val |-> PyNone]
      [] f.kind # "missing" /\ ~f.r -> [exc |-> "PermissionError", val |-> PyNone]
      [] f.kind = "malformed" /\ f.r -> [exc |-> "JSONDecodeError", val |-> PyNone]
      [] f.kind = "null" /\ f.r -> [exc |-> "none", val |-> PyNone]
      [] f.kind = "array" /\ f.r -> [exc |-> "none", val |-> PyList(f.items)]
      [] OTHER -> [exc |-> "none", val |-> PyDict(FromPairs(f.pairs))]

\* ------------------------------------------------------------------------
\* Database control
\* ------------------------------------------------------------------------

\* mutation: the os.path.exists test is lost and the file is always rewritten
InitDbMutantAlways(f) ==
    [kind |-> "object", pairs |-> <<>>, items |-> <<>>, fmt |-> "indent2",
     r |-> TRUE, w |-> TRUE]
\* mutation: the file is never created
InitDbMutantNever(f) == f
init_db(f) ==
    IF f.kind = "missing"
    THEN [kind |-> "object", pairs |-> <<>>, items |-> <<>>, fmt |-> "indent2",
          r |-> TRUE, w |-> TRUE]
    ELSE f

\* a read_db that says nothing when the load fails
ReadDbAtMutantSilent(file_location, f) ==
    [val |-> json_load(f).val, out |-> <<>>]
\* read_db: the value returned and the lines printed; any exception is
\* caught, a line is printed and the function falls off its end (None)
read_db_at(file_location, f) ==
    LET l == json_load(f)
    IN IF l.exc = "none"
       THEN [val |-> l.val, out |-> <<>>]
       ELSE [val |-> PyNone,
             out |-> <<"File '" \o file_location \o "' not found.">>]

\* read_db(INSTALLED_JSON)
read_db(f) == read_db_at(INSTALLED_JSON, f)

\* a write_db that writes whatever the file's permissions
WriteDbMutantForce(data, f) ==
    [file |-> json_dump(data, f), out |-> <<>>]
\* write_db: the file afterwards and the lines printed.  open(path, "w")
\* fails on a file without write permission; the bare except swallows it
\* (data is not None and the path is not None at every call site with a
\* dict, so nothing is printed for a dict).
write_db(data, f) ==
    IF f.kind # "missing" /\ ~f.w
    THEN [file |-> f, out |-> IF data.t = "none" THEN <<"Data empty">> ELSE <<>>]
    ELSE [file |-> json_dump(data, f), out |-> <<>>]

\* name in data
Contains(name, v) ==
    CASE v.t = "dict" -> [exc |-> "none", val |-> name \in Keys(v.pairs)]
      [] v.t = "list" -> [exc |-> "none",
                          val |-> \E i \in DOMAIN v.items : v.items[i] = name]
      [] OTHER -> [exc |-> "TypeError", val |-> FALSE]

\* d.get(k, default)
DictGet(d, k, default) == IF k \in Keys(d) THEN Lookup(d, k) ELSE default

\* mutation: a catalog that did not load is answered like a package not found
GetPackageInfoMutantSwallow(package_name, f) ==
    LET rd == read_db_at(REPO_JSON, f)
        packages == DictGet(rd.val.pairs, "packages", <<>>)
    IN IF rd.val.t = "dict" /\ package_name \in Keys(packages)
       THEN [exc |-> "none", val |-> <<Lookup(packages, package_name)>>, out |-> rd.out]
       ELSE [exc |-> "none", val |-> <<>>, out |-> rd.out]
\* get_package_info on the catalog file f: the exception raised or the value
\* returned, <<record>> or <<>> for None, and the lines printed.  data.get
\* exists only on a dict.
get_package_info(package_name, f) ==
    LET rd == read_db_at(REPO_JSON, f)
        packages == DictGet(rd.val.pairs, "packages", <<>>)
    IN IF rd.val.t # "dict"
       THEN [exc |-> "AttributeError", val |-> <<>>, out |-> rd.out]
       ELSE IF package_name \in Keys(packages)
            THEN [exc |-> "none", val |-> <<Lookup(packages, package_name)>>,
                  out |-> rd.out]
            ELSE [exc |-> "none", val |-> <<>>, out |-> rd.out]

\* is_installed: only FileNotFoundError and JSONDecodeError are caught
\* mutation: the membership test is lost and every name reads as absent
IsInstalledMutantNever(name, f) == [exc |-> "none", val |-> FALSE]
is_installed(name, f) ==
    LET l == json_load(f)
    IN CASE l.exc \in {"FileNotFoundError", "JSONDecodeError"} ->
              Contains(name, PyDict(<<>>))
         [] l.exc = "PermissionError" -> [exc |-> "PermissionError", val |-> FALSE]
         [] OTHER -> Contains(name, l.val)

\* ------------------------------------------------------------------------
\* Command logic.  Each command gives the file afterwards, the lines
\* printed and the exception that ended the process ("none" if it ran to
\* its end).  f is the file after the module-level init_db.
\* ------------------------------------------------------------------------

\* stands for the argument or result of a call that was not made
NotCalled == [t |-> "uncalled", pairs |-> <<>>, items |-> <<>>]

\* wrote is the data the command passed to write_db
Done(f, o) == [file |-> f, out |-> o, fault |-> "none", wrote |-> NotCalled]
Raise(f, o, e) == [file |-> f, out |-> o, fault |-> e, wrote |-> NotCalled]

\* mutation: another version literal
NewEntryMutantVersion(package_name) ==
    [version |-> "0.1",
     installed_at |-> "2025-11-04T12:00:00Z",
     source_type |-> "local_path",
     source_value |-> "/data/packages/" \o package_name,
     install_path |-> "data/packages/" \o package_name]
\* the value hook stores under package_name
new_entry(package_name) ==
    [version |-> "1.0",
     installed_at |-> "2025-11-04T12:00:00Z",
     source_type |-> "local_path",
     source_value |-> "/data/packages/" \o package_name,
     install_path |-> "data/packages/" \o package_name]

\* hook, after the registry was loaded and the name found not installed
hook_install(f, data, package_name, dry_run, quiet) ==
    IF dry_run
    THEN Done(f, <<"[Dry Run] Would hook " \o package_name>>)
    ELSE IF data.t # "dict"
         THEN Raise(f, <<>>, "AttributeError")
         ELSE LET updated == PyDict(DictSet(data.pairs, package_name,
                                            new_entry(package_name)))
                  wr == write_db(updated, f)
              IN [Done(wr.file,
                       wr.out \o (IF quiet THEN <<>>
                                  ELSE <<"Successfully hooked '" \o package_name \o "'!">>))
                  EXCEPT !.wrote = updated]

hook(f, package_name, dry_run, quiet) ==
    LET l == json_load(f)
        inst == is_installed(package_name, f)
    IN IF l.exc # "none" THEN Raise(f, <<>>, l.exc)
       ELSE IF inst.exc # "none" THEN Raise(f, <<>>, inst.exc)
       ELSE IF inst.val
            THEN Done(f, <<package_name \o " is already installed!">>)
            ELSE hook_install(f, l.val, package_name, dry_run, quiet)

\* run with the dry-run test ahead of the installed test
RunMutantDryFirst(f, package_name, dry_run, quiet) ==
    LET inst == is_installed(package_name, f)
    IN IF inst.exc # "none" THEN Raise(f, <<>>, inst.exc)
       ELSE IF dry_run THEN Done(f, <<"[Dry Run] Would run " \o package_name>>)
       ELSE IF ~inst.val THEN Done(f, <<package_name \o " is not installed!">>)
       ELSE Done(f, <<"Running " \o package_name>>)
run(f, package_name, dry_run, quiet) ==
    LET inst == is_installed(package_name, f)
    IN IF inst.exc # "none" THEN Raise(f, <<>>, inst.exc)
       ELSE IF ~inst.val THEN Done(f, <<package_name \o " is not installed!">>)
       ELSE IF dry_run THEN Done(f, <<"[Dry Run] Would run " \o package_name>>)
       ELSE Done(f, <<"Running " \o package_name>>)

\* a loop that prints the first record only
ListLinesMutantFirst(d) ==
    IF d = <<>> THEN [out |-> <<>>, fault |-> "none"]
    ELSE IF "version" \notin DOMAIN d[1][2]
         THEN [out |-> <<>>, fault |-> "KeyError"]
         ELSE [out |-> <<d[1][1] \o " - version " \o d[1][2].version>>,
               fault |-> "none"]

\* the lines of the loop over installed_data.items(), up to the first
\* record without a 'version' key
RECURSIVE list_lines(_)
list_lines(d) ==
    IF d = <<>> THEN [out |-> <<>>, fault |-> "none"]
    ELSE IF "version" \notin DOMAIN d[1][2]
         THEN [out |-> <<>>, fault |-> "KeyError"]
         ELSE LET rest == list_lines(Tail(d))
              IN [out |-> <<d[1][1] \o " - version " \o d[1][2].version>> \o rest.out,
                  fault |-> rest.fault]

list(f, dry_run, quiet) ==
    LET rd == read_db(f)
    IN IF ~Truthy(rd.val) THEN Done(f, rd.out \o <<"No packages installed.">>)
       ELSE IF dry_run
            THEN Done(f, rd.out \o <<"[Dry Run] Would list packages and version">>)
       ELSE IF rd.val.t # "dict" THEN Raise(f, rd.out, "AttributeError")
       ELSE LET ll == list_lines(rd.val.pairs)
            IN Raise(f, rd.out \o ll.out, ll.fault)

\* the guard of the simulation branch of remove
remove_simulates(dry_run, quiet) == dry_run /\ ~quiet

\* remove, once the name was found in installed_data
remove_delete(f, data, package_name, quiet) ==
    IF data.t # "dict"
    THEN Raise(f, <<>>, "TypeError")
    ELSE LET popped == PyDict(DictPop(data.pairs, package_name))
             wr == write_db(popped, f)
         IN [Done(wr.file,
                  wr.out \o (IF quiet THEN <<>>
                             ELSE <<"Successfully removed " \o package_name \o " !">>))
             EXCEPT !.wrote = popped]

remove(f, package_name, dry_run, quiet) ==
    LET rd == read_db(f)
        has == Contains(package_name, rd.val)
    IN IF ~Truthy(rd.val) THEN Done(f, rd.out \o <<"No packages installed">>)
       ELSE IF remove_simulates(dry_run, quiet)
            THEN Done(f, rd.out \o <<"[Dry Run] Would remove " \o package_name>>)
       ELSE IF ~has.val
            THEN Done(f, rd.out \o <<"Package '" \o package_name \o "' is not found">>)
       ELSE LET r == remove_delete(f, rd.val, package_name, quiet)
            IN [file |-> r.file, out |-> rd.out \o r.out, fault |-> r.fault,
                wrote |-> r.wrote]

\* ------------------------------------------------------------------------
\* State
\* ------------------------------------------------------------------------

VARIABLES
    installed_json,  \* the file data/installed.json
    stdout,          \* the lines the last invocation printed
    fault,           \* the exception that ended the last invocation, or "none"
    args,            \* the last invocation's parsed arguments
    before,          \* the file as the last invocation found it
    initialised,     \* the file as the module-level init_db left it for the command
    hooked,          \* when the invocation before the last was a hook that wrote the
                     \* registry: its package name and the mapping it had loaded
    returned,        \* what read_db returned to the last invocation (list, remove)
    written,         \* the data the last invocation passed to write_db
    loads,           \* how often the last invocation's command called json.load on the registry
    saves,           \* how often the last invocation's command called write_db
    requested,       \* names in the starting registry or hooked, and not removed since
    plain,           \* every invocation so far was a hook or remove without --dry-run
    scenario,        \* how far the run has followed hook alpha; list; remove alpha; remove alpha
    repo_json,       \* the catalog file repo.json
    lookup,          \* the last get_package_info call: the name asked and its outcome
    now,             \* the wall clock's reading when the last invocation ran
    earlier,         \* the wall clock's reading when the invocation before it ran
    pc,              \* concurrent hook processes: the statement each is to run next
    pargs,           \* ... the arguments each was started with
    pdata,           \* ... the installed_data each holds
    pout,            \* ... the lines each has printed
    pfault,          \* ... the exception that ended each, or "none"
    raced,           \* both processes had passed the installed test before either
                     \* opened the registry for writing
    vpc,             \* log viewer: "new", at the "prompt", "exited" or "crashed"
    logs_dir,        \* ... the directory it was started on
    present,         \* ... the log files that exist
    log_files,       \* ... self.log_files, the cache of the last scan
    fsops,           \* ... the file system calls of its last step
    vin,             \* ... the line it read last
    vout,            \* ... what it printed last
    vfault,          \* ... the exception that ended it, or "none"
    started          \* ... the registry and the catalog as they were when it started

\* the state of the command line tool
cmdVars == <<installed_json, stdout, fault, args, before, initialised, hooked,
             returned, written, loads, saves, requested, plain, scenario>>

\* the state of the repository lookup
catalogVars == <<repo_json, lookup>>

\* the wall clock
clockVars == <<now, earlier>>

\* the concurrent hook processes
raceVars == <<pc, pargs, pdata, pout, pfault, raced>>

\* what one invocation at a time records about itself
invocationVars == <<stdout, fault, args, before, initialised, hooked,
                    returned, written, loads, saves, requested, plain, scenario>>

\* the log viewer
viewerVars == <<vpc, logs_dir, present, log_files, fsops, vin, vout, vfault, started>>

vars == <<cmdVars, catalogVars, clockVars, raceVars, viewerVars>>

\* a record some other tool or an earlier version left in the registry
ForeignRecord == [version |-> "1.23.0"]

InitPairs == {<<n, new_entry(n)>> : n \in Names} \cup {<<n, ForeignRecord>> : n \in Names}

PairSeqs == UNION {[1..n -> InitPairs] : n \in 0..MaxInitLen}

File(kind, pairs, items, fmt, r, w) ==
    [kind |-> kind, pairs |-> pairs, items |-> items, fmt |-> fmt, r |-> r, w |-> w]

\* what may lie at data/installed.json when the tool is started
Contents ==
    {<<"malformed", <<>>, <<>>, "other">>, <<"null", <<>>, <<>>, "other">>,
     <<"array", <<>>, <<>>, "other">>, <<"array", <<>>, <<"alpha">>, "other">>}
    \cup {<<"object", ps, <<>>, fmt>> : ps \in PairSeqs, fmt \in {"indent2", "other"}}

\* the file init_db and json.dump({}, f, indent=2) leave
EmptyRegistryFile == File("object", <<>>, <<>>, "indent2", TRUE, TRUE)

\* files with the usual permissions
InitFiles == {MissingFile} \cup {File(c[1], c[2], c[3], c[4], TRUE, TRUE) : c \in Contents}

\* files that may also lack read or write permission
InitFilesIO ==
    {MissingFile} \cup {File(c[1], c[2], c[3], c[4], r, w) :
                           c \in Contents, r \in BOOLEAN, w \in BOOLEAN}

NoHook == [name |-> "", registry |-> {}]

\* the last invocation was a hook that took the installing branch: it ran to
\* its end without --dry-run and printed the confirmation, or nothing under
\* --quiet
HookWrote ==
    /\ args.command = "hook"
    /\ ~args.dry_run
    /\ fault = "none"
    /\ stdout = IF args.quiet THEN <<>>
                ELSE <<"Successfully hooked '" \o args.package_name \o "'!">>

NoArgs == [command |-> "none", package_name |-> "", dry_run |-> FALSE, quiet |-> FALSE]

InitFrom(files) ==
    /\ installed_json \in files
    /\ stdout = <<>>
    /\ fault = "none"
    /\ args = NoArgs
    /\ before = installed_json
    /\ initialised = installed_json
    /\ hooked = NoHook
    /\ returned = NotCalled
    /\ written = NotCalled
    /\ loads = 0
    /\ saves = 0
    /\ requested = IF json_load(installed_json).val.t = "dict"
                   THEN Keys(json_load(installed_json).val.pairs) ELSE {}
    /\ plain = (installed_json.kind = "object")
    /\ scenario = IF installed_json.kind = "missing" THEN 0 ELSE 5

NoLookup == [name |-> "", exc |-> "none", val |-> <<>>, out |-> <<>>]

\* no catalog is looked at
CatalogIdle == repo_json = MissingFile /\ lookup = NoLookup

\* the wall clock is not followed
ClockIdle == now = 0 /\ earlier = 0

\* the processes that hook at the same time
Procs == {1, 2}

\* no concurrent processes are followed
RaceIdle ==
    /\ pc = [p \in Procs |-> "idle"]
    /\ pargs = [p \in Procs |-> NoArgs]
    /\ pdata = [p \in Procs |-> NotCalled]
    /\ pout = [p \in Procs |-> <<>>]
    /\ pfault = [p \in Procs |-> "none"]
    /\ raced = FALSE

\* no log viewer is followed
ViewerIdle ==
    /\ vpc = "idle"
    /\ logs_dir = ""
    /\ present = {}
    /\ log_files = <<>>
    /\ fsops = {}
    /\ vin = <<>>
    /\ vout = ""
    /\ vfault = "none"
    /\ started = <<>>

Init == InitFrom(InitFiles) /\ CatalogIdle /\ ClockIdle /\ RaceIdle /\ ViewerIdle

InitIO == InitFrom(InitFilesIO) /\ CatalogIdle /\ ClockIdle /\ RaceIdle /\ ViewerIdle

\* the step of the scenario an invocation completes, 5 when it leaves it
ScenarioStep(s, a) ==
    LET bare == ~a.dry_run /\ ~a.quiet
    IN CASE s = 0 /\ a.command = "hook" /\ a.package_name = "alpha" /\ bare -> 1
         [] s = 1 /\ a.command = "list" /\ bare -> 2
         [] s = 2 /\ a.command = "remove" /\ a.package_name = "alpha" /\ bare -> 3
         [] s = 3 /\ a.command = "remove" /\ a.package_name = "alpha" /\ bare -> 4
         [] OTHER -> 5

\* the json.load calls of a command on the file f: one in read_db (list,
\* remove) or in is_installed (run); hook makes its own and, if that returns,
\* the one in is_installed; none without a command
Loads(a, f) ==
    CASE a.command = "hook" -> IF json_load(f).exc = "none" THEN 2 ELSE 1
      [] a.command \in {"run", "list", "remove"} -> 1
      [] OTHER -> 0

\* the write_db calls of a command with the result res
Saves(res) == IF res.wrote = NotCalled THEN 0 ELSE 1

\* one invocation: init_db at module level, then the command; res is the
\* command's result on the initialised file
Invoke(a, res) ==
    /\ installed_json' = res.file
    /\ stdout' = res.out
    /\ fault' = res.fault
    /\ args' = a
    /\ before' = installed_json
    /\ initialised' = init_db(installed_json)
    /\ hooked' = IF HookWrote
                 THEN [name |-> args.package_name,
                       registry |-> AsMap(json_load(initialised).val.pairs)]
                 ELSE NoHook
    /\ returned' = IF a.command \in {"list", "remove"}
                   THEN read_db(init_db(installed_json)).val ELSE NotCalled
    /\ written' = res.wrote
    /\ loads' = Loads(a, init_db(installed_json))
    /\ saves' = Saves(res)
    /\ requested' = IF a.dry_run THEN requested
                    ELSE CASE a.command = "hook" -> requested \cup {a.package_name}
                           [] a.command = "remove" -> requested \ {a.package_name}
                           [] OTHER -> requested
    /\ plain' = (plain /\ a.command \in {"hook", "remove"} /\ ~a.dry_run)
    /\ scenario' = ScenarioStep(scenario, a)

Args(c, n, d, q) == [command |-> c, package_name |-> n, dry_run |-> d, quiet |-> q]

Hook ==
    \E n \in Names, d \in BOOLEAN, q \in BOOLEAN :
        Invoke(Args("hook", n, d, q), hook(init_db(installed_json), n, d, q))

Run ==
    \E n \in Names, d \in BOOLEAN, q \in BOOLEAN :
        Invoke(Args("run", n, d, q), run(init_db(installed_json), n, d, q))

List ==
    \E d \in BOOLEAN, q \in BOOLEAN :
        Invoke(Args("list", "", d, q), list(init_db(installed_json), d, q))

Remove ==
    \E n \in Names, d \in BOOLEAN, q \in BOOLEAN :
        Invoke(Args("remove", n, d, q), remove(init_db(installed_json), n, d, q))

Next ==
    \/ Hook /\ UNCHANGED <<catalogVars, clockVars, raceVars, viewerVars>>
    \/ Run /\ UNCHANGED <<catalogVars, clockVars, raceVars, viewerVars>>
    \/ List /\ UNCHANGED <<catalogVars, clockVars, raceVars, viewerVars>>
    \/ Remove /\ UNCHANGED <<catalogVars, clockVars, raceVars, viewerVars>>

Spec == Init /\ [][Next]_vars

SpecIO == InitIO /\ [][Next]_vars

\* ------------------------------------------------------------------------
\* Every way of starting the script: the four commands, no command, and a
\* command line argparse rejects
\* ------------------------------------------------------------------------

\* no subcommand, with or without --version: the else branch prints the help
NoCommand ==
    \E d \in BOOLEAN, q \in BOOLEAN :
        Invoke(Args("help", "", d, q),
               Done(init_db(installed_json), <<"usage: tinyhook">>))

\* parser.parse_args() exits: an unknown command, a missing package name, -h
ParseExit ==
    Invoke(Args("usage", "", FALSE, FALSE),
           Raise(init_db(installed_json), <<"usage: tinyhook">>, "SystemExit"))

NextStart ==
    \/ Hook /\ UNCHANGED <<catalogVars, clockVars, raceVars, viewerVars>>
    \/ Run /\ UNCHANGED <<catalogVars, clockVars, raceVars, viewerVars>>
    \/ List /\ UNCHANGED <<catalogVars, clockVars, raceVars, viewerVars>>
    \/ Remove /\ UNCHANGED <<catalogVars, clockVars, raceVars, viewerVars>>
    \/ NoCommand /\ UNCHANGED <<catalogVars, clockVars, raceVars, viewerVars>>
    \/ ParseExit /\ UNCHANGED <<catalogVars, clockVars, raceVars, viewerVars>>

SpecStart == Init /\ [][NextStart]_vars

\* ------------------------------------------------------------------------
\* Repository lookup: get_package_info called on a catalog file
\* ------------------------------------------------------------------------

\* metadata records of a catalog
CatalogMeta ==
    {[version |-> "1.23.0", source_type |-> "remote_url",
      source_value |-> "https://pypi.org/numpy/",
      description |-> "Numerical computing library"],
     [version |-> "1.5.0", source_type |-> "git_repo",
      source_value |-> "https://github.com/pandas-dev/pandas",
      description |-> "Data analysis library"]}

\* the value under "packages": name/metadata pairs, no name twice
CatalogPackages ==
    {ps \in UNION {[1..n -> Names \X CatalogMeta] : n \in 0..MaxInitLen} :
        \A i, j \in DOMAIN ps : ps[i][1] = ps[j][1] => i = j}

\* the top-level object of a catalog file: with or without a "packages"
\* key, with or without another key
CatalogObjects ==
    {<<>>, <<<<"metadata", <<>>>>>>}
    \cup {<<<<"packages", ps>>>> : ps \in CatalogPackages}
    \cup {<<<<"metadata", <<>>>>, <<"packages", ps>>>> : ps \in CatalogPackages}

CatalogFiles ==
    {MissingFile, File("malformed", <<>>, <<>>, "other", TRUE, TRUE)}
    \cup {File("object", o, <<>>, "other", TRUE, TRUE) : o \in CatalogObjects}

\* names asked for: those a catalog may hold and one none holds
Queries == Names \cup {"gamma"}

InitCatalog ==
    /\ InitFrom({EmptyRegistryFile})
    /\ repo_json \in CatalogFiles
    /\ lookup = NoLookup
    /\ ClockIdle
    /\ RaceIdle
    /\ ViewerIdle

GetPackageInfo ==
    \E n \in Queries :
        LET res == get_package_info(n, repo_json)
        IN /\ lookup' = [name |-> n, exc |-> res.exc, val |-> res.val, out |-> res.out]
           /\ UNCHANGED <<repo_json, cmdVars, clockVars, raceVars, viewerVars>>

NextCatalog == GetPackageInfo

SpecCatalog == InitCatalog /\ [][NextCatalog]_vars

\* ------------------------------------------------------------------------
\* Invocations at successive times: the wall clock has moved on whenever the
\* tool is started again
\* ------------------------------------------------------------------------

Tick == now < MaxClock /\ now' = now + 1 /\ earlier' = now

NextClock ==
    \/ Hook /\ Tick /\ UNCHANGED <<catalogVars, raceVars, viewerVars>>
    \/ Run /\ Tick /\ UNCHANGED <<catalogVars, raceVars, viewerVars>>
    \/ List /\ Tick /\ UNCHANGED <<catalogVars, raceVars, viewerVars>>
    \/ Remove /\ Tick /\ UNCHANGED <<catalogVars, raceVars, viewerVars>>

SpecClock == Init /\ [][NextClock]_vars

\* ------------------------------------------------------------------------
\* Two hook invocations running as concurrent processes, one file access at
\* a time
\* ------------------------------------------------------------------------

\* the empty file open(path, "w") leaves until something is written
Truncated == File("malformed", <<>>, <<>>, "none", TRUE, TRUE)

\* a text that is a dump followed by the tail of a longer, older one
Garbled == File("malformed", <<>>, <<>>, "other", TRUE, TRUE)

\* the characters of the members of a record, one per line:
\* four blanks, "field": "value"
RECURSIVE MembersLen(_, _)
MembersLen(rec, fields) ==
    IF fields = {} THEN 0
    ELSE LET k == CHOOSE x \in fields : TRUE
         IN Len(k) + Len(rec[k]) + 10 + MembersLen(rec, fields \ {k})

\* the characters of a record dumped with indent=2 at nesting level 1
ValueLen(rec) ==
    2 + MembersLen(rec, DOMAIN rec) + 2 * (Cardinality(DOMAIN rec) - 1) + 4

\* the characters of the entries of a dict, each two blanks, "key": record
RECURSIVE EntriesLen(_)
EntriesLen(d) ==
    IF d = <<>> THEN 0
    ELSE Len(d[1][1]) + 6 + ValueLen(d[1][2]) + EntriesLen(Tail(d))

\* len(json.dumps(d, indent=2)) for a dict d of records
DumpLen(d) ==
    IF d = <<>> THEN 2 ELSE 2 + EntriesLen(d) + 2 * (Len(d) - 1) + 2

\* a write that adds to the end of the file
OverlaysMutantAppend(data, f) ==
    {IF f.kind = "object" THEN JsonDumpMutantMerge(data, f) ELSE json_dump(data, f)}
\* the files a process can leave when it writes the dump of the dict data
\* from offset 0 of the file f, which it truncated when it opened it and
\* which another process may have written since: the dump, or the dump
\* followed by what is left of a longer text
Overlays(data, f) ==
    LET text == json_dump(data, Truncated)
    IN CASE f = Truncated -> {text}
         [] f.kind = "object" /\ f.fmt = "indent2" ->
               {IF DumpLen(f.pairs) <= DumpLen(data.pairs) THEN text ELSE Garbled}
         [] OTHER -> {text, Garbled}

HookArgs == {Args("hook", n, d, q) : n \in Names, d \in BOOLEAN, q \in BOOLEAN}

InitRace ==
    /\ InitFrom(InitFiles)
    /\ CatalogIdle
    /\ ClockIdle
    /\ pc = [p \in Procs |-> "init_db"]
    /\ pargs \in [Procs -> HookArgs]
    /\ pdata = [p \in Procs |-> NotCalled]
    /\ pout = [p \in Procs |-> <<>>]
    /\ pfault = [p \in Procs |-> "none"]
    /\ raced = FALSE
    /\ ViewerIdle

\* process p goes on to the statement at
Goto(p, at) == pc' = [pc EXCEPT ![p] = at]

\* process p ends with the exception e
Crash(p, e) == Goto(p, "crashed") /\ pfault' = [pfault EXCEPT ![p] = e]

\* process p prints the line and ends
Finish(p, line) == Goto(p, "done") /\ pout' = [pout EXCEPT ![p] = @ \o <<line>>]

\* init_db: if not os.path.exists(file_location)
RaceExists(p) ==
    /\ pc[p] = "init_db"
    /\ Goto(p, IF installed_json.kind = "missing" THEN "init_open" ELSE "load")
    /\ UNCHANGED <<installed_json, pargs, pdata, pout, pfault, raced>>

\* init_db: with open(file_location, "w") as f
RaceInitOpen(p) ==
    /\ pc[p] = "init_open"
    /\ installed_json' = Truncated
    /\ Goto(p, "init_dump")
    /\ UNCHANGED <<pargs, pdata, pout, pfault, raced>>

\* init_db: json.dump({}, f, indent=2), written when the file is closed
RaceInitDump(p) ==
    /\ pc[p] = "init_dump"
    /\ installed_json' \in Overlays(PyDict(<<>>), installed_json)
    /\ Goto(p, "load")
    /\ UNCHANGED <<pargs, pdata, pout, pfault, raced>>

\* hook: with open(INSTALLED_JSON, "r") as f: installed_data = json.load(f)
RaceLoad(p) ==
    LET l == json_load(installed_json)
    IN /\ pc[p] = "load"
       /\ IF l.exc # "none"
          THEN Crash(p, l.exc) /\ UNCHANGED pdata
          ELSE /\ Goto(p, "is_installed")
               /\ pdata' = [pdata EXCEPT ![p] = l.val]
               /\ UNCHANGED pfault
       /\ UNCHANGED <<installed_json, pargs, pout, raced>>

\* hook: if is_installed(package_name) ... else, up to the call of write_db
RaceCheck(p) ==
    LET a == pargs[p]
        inst == is_installed(a.package_name, installed_json)
    IN /\ pc[p] = "is_installed"
       /\ IF inst.exc # "none"
          THEN Crash(p, inst.exc) /\ UNCHANGED <<pdata, pout>>
          ELSE IF inst.val
          THEN /\ Finish(p, a.package_name \o " is already installed!")
               /\ UNCHANGED <<pdata, pfault>>
          ELSE IF a.dry_run
          THEN /\ Finish(p, "[Dry Run] Would hook " \o a.package_name)
               /\ UNCHANGED <<pdata, pfault>>
          ELSE IF pdata[p].t # "dict"
          THEN Crash(p, "AttributeError") /\ UNCHANGED <<pdata, pout>>
          ELSE /\ Goto(p, "write_db")
               /\ pdata' = [pdata EXCEPT ![p] =
                               PyDict(DictSet(@.pairs, a.package_name,
                                              new_entry(a.package_name)))]
               /\ UNCHANGED <<pout, pfault>>
       /\ raced' = (raced \/ \A q \in Procs : pc'[q] = "write_db")
       /\ UNCHANGED <<installed_json, pargs>>

\* write_db: with open(location, "w") as f
RaceOpen(p) ==
    /\ pc[p] = "write_db"
    /\ installed_json' = Truncated
    /\ Goto(p, "dump")
    /\ UNCHANGED <<pargs, pdata, pout, pfault, raced>>

\* write_db: json.dump(data, f, indent=2), written when the file is closed;
\* then the confirmation
RaceDump(p) ==
    /\ pc[p] = "dump"
    /\ installed_json' \in Overlays(pdata[p], installed_json)
    /\ Goto(p, "done")
    /\ pout' = [pout EXCEPT ![p] =
                   IF pargs[p].quiet THEN @
                   ELSE @ \o <<"Successfully hooked '" \o pargs[p].package_name \o "'!">>]
    /\ UNCHANGED <<pargs, pdata, pfault, raced>>

NextRace ==
    \/ \E p \in Procs : RaceExists(p) /\ UNCHANGED <<invocationVars, catalogVars, clockVars, viewerVars>>
    \/ \E p \in Procs : RaceInitOpen(p) /\ UNCHANGED <<invocationVars, catalogVars, clockVars, viewerVars>>
    \/ \E p \in Procs : RaceInitDump(p) /\ UNCHANGED <<invocationVars, catalogVars, clockVars, viewerVars>>
    \/ \E p \in Procs : RaceLoad(p) /\ UNCHANGED <<invocationVars, catalogVars, clockVars, viewerVars>>
    \/ \E p \in Procs : RaceCheck(p) /\ UNCHANGED <<invocationVars, catalogVars, clockVars, viewerVars>>
    \/ \E p \in Procs : RaceOpen(p) /\ UNCHANGED <<invocationVars, catalogVars, clockVars, viewerVars>>
    \/ \E p \in Procs : RaceDump(p) /\ UNCHANGED <<invocationVars, catalogVars, clockVars, viewerVars>>

SpecRace == InitRace /\ [][NextRace]_vars

\* ------------------------------------------------------------------------
\* The log viewer: LogViewer of ai-workspace/log_viewer.py
\* ------------------------------------------------------------------------

\* a piece of text: a word, an opening style tag [s] or a closing tag [/s]
Word(w) == [k |-> "text", s |-> w]
Open(w) == [k |-> "open", s |-> w]
Close(w) == [k |-> "close", s |-> w]

\* str.lower() on the words that are typed
Lower(w) ==
    CASE w = "EXIT" -> "exit"
      [] w = "Quit" -> "quit"
      [] w = "ERROR" -> "error"
      [] OTHER -> w

LowerPiece(t) == [k |-> t.k, s |-> Lower(t.s)]

\* the stack of open styles without its topmost entry for the style name
RECURSIVE pop_style(_, _)
pop_style(stack, name) ==
    IF stack = <<>> THEN <<>>
    ELSE IF Head(stack) = name THEN Tail(stack)
    ELSE <<Head(stack)>> \o pop_style(Tail(stack), name)

\* rich.markup.render: the exception console.print raises for a text with
\* console markup, and the exception's message; a closing tag that matches no
\* open tag is a MarkupError whose message quotes the tag
RECURSIVE render(_, _)
render(text, stack) ==
    IF text = <<>> THEN [exc |-> "none", msg |-> <<>>]
    ELSE LET t == Head(text)
         IN CASE t.k = "text" -> render(Tail(text), stack)
              [] t.k = "open" -> render(Tail(text), <<t.s>> \o stack)
              [] OTHER ->
                   IF \E i \in DOMAIN stack : stack[i] = t.s
                   THEN render(Tail(text), pop_style(stack, t.s))
                   ELSE [exc |-> "MarkupError",
                         msg |-> <<Word("closing tag '"), t,
                                   Word("' at position doesn't match any open tag")>>]

\* console.print(text)
console_print(text) == render(text, <<>>)

\* paths, relative to the directory the tools are run in
AgentLog == ".claude/agents/logs/agent_1.md"
NotesLog == "data/notes.txt"
RunLog == "data/run.log"
LogPaths == {AgentLog, NotesLog, RunLog}

\* the default logs directory and the directories a viewer may be started on
LogsDirs == {".claude/agents/logs", "data", "."}

\* the files below a directory, whatever their kind
Under(dir) ==
    CASE dir = ".claude/agents/logs" -> {AgentLog}
      [] dir = "data" -> {NotesLog, RunLog, INSTALLED_JSON}
      [] OTHER -> {AgentLog, NotesLog, RunLog, INSTALLED_JSON, REPO_JSON}

\* Path.suffix
Suffix(path) ==
    CASE path = AgentLog -> ".md"
      [] path = NotesLog -> ".txt"
      [] path = RunLog -> ".log"
      [] OTHER -> ".json"

\* the log files from the newest to the oldest
ByMtime == <<RunLog, AgentLog, NotesLog>>

\* the one line each log file holds
Content(path) ==
    CASE path = AgentLog -> <<Word("agent"), Word("ERROR")>>
      [] path = NotesLog -> <<Word("notes")>>
      [] OTHER -> <<Word("error"), Close("x")>>

\* a file system call
Op(op, path) == [op |-> op, path |-> path]

\* the calls that change what is at a path
WriteOps == {"open_w", "open_a", "unlink", "rename", "mkdir"}

\* the file at path after the calls ops, when it was f
Effect(ops, path, f) ==
    IF \E o \in ops : o.path = path /\ o.op \in WriteOps \ {"mkdir"}
    THEN IF Op("unlink", path) \in ops \/ Op("rename", path) \in ops
         THEN MissingFile ELSE Truncated
    ELSE f

\* does a file exist at the path
Exists(path, here, registry, catalog) ==
    CASE path = INSTALLED_JSON -> registry.kind # "missing"
      [] path = REPO_JSON -> catalog.kind # "missing"
      [] OTHER -> path \in here

\* scan_logs: the existing files below dir ending .md, .txt or .log, the
\* newest first
scan_logs(dir, here, registry, catalog) ==
    SelectSeq(ByMtime, LAMBDA path :
        /\ path \in Under(dir)
        /\ Suffix(path) \in {".md", ".txt", ".log"}
        /\ Exists(path, here, registry, catalog))

\* the calls of scan_logs: three rglob and a stat per file found
scan_ops(dir, found) ==
    {Op("exists", dir), Op("rglob", dir)} \cup {Op("stat", found[i]) : i \in DOMAIN found}

\* open(file_path, 'r', encoding='utf-8')
LogOpen(path) == Op("open_r", path)

\* what a method of the viewer did: the exception it raised and its message,
\* its file system calls, and what it printed last
Did(ops, out) == [exc |-> "none", msg |-> <<>>, ops |-> ops, out |-> out]
Raised(exc, msg, ops) == [exc |-> exc, msg |-> msg, ops |-> ops, out |-> ""]

\* a method that prints the text and, if that went well, goes on as rest
Printing(text, ops, rest) ==
    LET r == console_print(text)
    IN IF r.exc # "none" THEN Raised(r.exc, r.msg, ops) ELSE rest

\* does the filter term occur in the file's name
NameMatches(filter_term, path) ==
    /\ Len(filter_term) = 1
    /\ Lower(filter_term[1].s) \in (IF path = AgentLog THEN {"agent"} ELSE {})

\* the stat calls of the loop over files up to the first file that is gone
RECURSIVE stat_rows(_, _)
stat_rows(files, here) ==
    IF files = <<>> THEN Did({}, "table")
    ELSE IF Head(files) \notin here
         THEN Raised("FileNotFoundError",
                     <<Word("[Errno 2] No such file or directory")>>,
                     {Op("stat", Head(files))})
         ELSE LET rest == stat_rows(Tail(files), here)
              IN [rest EXCEPT !.ops = @ \cup {Op("stat", Head(files))}]

display_log_list(cache, filter_term, here) ==
    LET files == IF filter_term # <<>>
                 THEN SelectSeq(cache, LAMBDA path : NameMatches(filter_term, path))
                 ELSE cache
        table == IF files = <<>> THEN Did({}, "No log files found.")
                 ELSE stat_rows(files, here)
    IN IF filter_term # <<>>
       THEN Printing(<<Open("bold"), Word("Filtered results for:"), Close("bold"),
                       Open("cyan")>> \o filter_term \o <<Close("cyan")>>,
                     {}, table)
       ELSE table

\* a viewer that keeps a note of the file shown last in the registry
DisplayLogContentMutantNote(file_path, here) ==
    Did({Op("exists", file_path), Op("open_a", INSTALLED_JSON)}, "content")
display_log_content(file_path, here) ==
    IF file_path \notin here
    THEN Did({Op("exists", file_path)}, "File not found")
    ELSE Did({Op("exists", file_path), LogOpen(file_path), Op("stat", file_path)},
             "content")

view_file_by_number(file_num, cache, here) ==
    IF file_num < 1 \/ file_num > Len(cache)
    THEN Did({}, "Invalid file number")
    ELSE display_log_content(cache[file_num], here)

\* int(args): the number or a ValueError
IntOf(words) ==
    IF Len(words) = 1 /\ words[1] = Word("1") THEN [exc |-> "none", val |-> 1]
    ELSE IF Len(words) = 1 /\ words[1] = Word("9") THEN [exc |-> "none", val |-> 9]
    ELSE [exc |-> "ValueError", val |-> 0]

\* does the query occur in the text, whatever the case
Occurs(query, text) ==
    Len(query) = 1 /\ \E i \in DOMAIN text : LowerPiece(text[i]) = LowerPiece(query[1])

\* the line with every occurrence of the query wrapped in highlight tags
RECURSIVE highlight(_, _)
highlight(text, query) ==
    IF text = <<>> THEN <<>>
    ELSE (IF LowerPiece(Head(text)) = LowerPiece(query[1])
          THEN <<Open("bold yellow on red"), Head(text), Close("bold yellow on red")>>
          ELSE <<Head(text)>>) \o highlight(Tail(text), query)

search_logs(query, cache, here) ==
    LET ops == {LogOpen(cache[i]) : i \in DOMAIN cache}
        results == SelectSeq(cache, LAMBDA path :
                                path \in here /\ Occurs(query, Content(path)))
    IN IF results = <<>>
       THEN Printing(<<Open("yellow"), Word("No results found for:"), Close("yellow"),
                       Open("bold")>> \o query \o <<Close("bold")>>,
                     ops, Did(ops, "No results found"))
       ELSE Printing(<<Word("Search Results for '")>> \o query \o <<Word("'")>>, ops,
            Printing(<<Open("bold green"), Word("1"), Close("bold green")>>
                        \o highlight(Content(results[1]), query),
                     ops, Did(ops, "preview")))

\* the first word of the line, lowered, and the rest of the line
Command(line) == LowerPiece(line[1])
Arguments(line) == Tail(line)

Leaves == {Word("exit"), Word("quit"), Word("q")}
Known == Leaves \cup {Word("help"), Word("?"), Word("list"), Word("ls"),
                       Word("clear"), Word("cls"), Word("refresh"), Word("view"),
                       Word("filter"), Word("search")}

\* the lines typed at the prompt
Lines ==
    {<<>>, <<Word("exit")>>, <<Word("Quit")>>, <<Word("q")>>, <<Word("EXIT"), Word("now")>>,
     <<Word("help")>>, <<Word("list")>>, <<Word("refresh")>>, <<Word("clear")>>,
     <<Word("view")>>, <<Word("view"), Word("1")>>, <<Word("view"), Word("9")>>,
     <<Word("view"), Word("zz")>>,
     <<Word("filter")>>, <<Word("filter"), Word("agent")>>, <<Word("filter"), Close("x")>>,
     <<Word("search")>>, <<Word("search"), Word("error")>>, <<Word("search"), Word("zz")>>,
     <<Word("search"), Close("x")>>,
     <<Word("bogus")>>, <<Close("x")>>, <<Open("x")>>}

\* the registry and catalog files a viewer may find
ViewerFiles ==
    {MissingFile, EmptyRegistryFile,
     File("object", <<<<"alpha", ForeignRecord>>>>, <<>>, "other", TRUE, TRUE)}

InitViewer ==
    /\ InitFrom(ViewerFiles)
    /\ repo_json \in ViewerFiles
    /\ lookup = NoLookup
    /\ ClockIdle
    /\ RaceIdle
    /\ vpc = "new"
    /\ logs_dir \in LogsDirs
    /\ present \in SUBSET LogPaths
    /\ log_files = <<>>
    /\ fsops = {}
    /\ vin = <<>>
    /\ vout = ""
    /\ vfault = "none"
    /\ started = <<installed_json, repo_json>>

\* what the viewer leaves alone
ViewerFrame == UNCHANGED <<invocationVars, lookup, clockVars, raceVars, logs_dir, started>>

\* the file system calls ops are made
Calls(ops) ==
    /\ fsops' = ops
    /\ installed_json' = Effect(ops, INSTALLED_JSON, installed_json)
    /\ repo_json' = Effect(ops, REPO_JSON, repo_json)

\* the rest of one turn of the while loop after a command did res: back to
\* the prompt, through the except clause if the command raised; an exception
\* raised by the print of the except clause leaves run()
Turn(line, res) ==
    LET h == console_print(<<Open("bold red"), Word("ERROR:"), Close("bold red")>>
                              \o res.msg)
    IN /\ vpc = "prompt"
       /\ vin' = line
       /\ Calls(res.ops)
       /\ IF res.exc = "none"
          THEN vpc' = "prompt" /\ vout' = res.out /\ vfault' = "none"
          ELSE IF h.exc = "none"
          THEN vpc' = "prompt" /\ vout' = "ERROR" /\ vfault' = "none"
          ELSE vpc' = "crashed" /\ vout' = "" /\ vfault' = h.exc
       /\ UNCHANGED present
       /\ ViewerFrame

\* main(): LogViewer(logs_dir), then run() up to the first prompt
ViewerStart ==
    LET found == scan_logs(logs_dir, present, installed_json, repo_json)
    IN /\ vpc = "new"
       /\ vpc' = "prompt"
       /\ log_files' = found
       /\ Calls({Op("mkdir", logs_dir)} \cup scan_ops(logs_dir, found))
       /\ vout' = "Found log files"
       /\ UNCHANGED <<vin, vfault, present>>
       /\ ViewerFrame

\* if not parts: continue
ViewerBlank == Turn(<<>>, Did({}, "")) /\ UNCHANGED log_files

ViewerExit ==
    \E line \in Lines \ {<<>>} :
        /\ Command(line) \in Leaves
        /\ vpc = "prompt"
        /\ vpc' = "exited"
        /\ vin' = line
        /\ vout' = "Thanks for using TinyHook Log Viewer!"
        /\ Calls({})
        /\ UNCHANGED <<log_files, vfault, present>>
        /\ ViewerFrame

ViewerHelp ==
    \E line \in Lines \ {<<>>} :
        /\ Command(line) \in {Word("help"), Word("?")}
        /\ Turn(line, Did({}, "help"))
        /\ UNCHANGED log_files

ViewerList ==
    \E line \in Lines \ {<<>>} :
        /\ Command(line) \in {Word("list"), Word("ls")}
        /\ Turn(line, display_log_list(log_files, <<>>, present))
        /\ UNCHANGED log_files

ViewerRefresh ==
    \E line \in Lines \ {<<>>} :
        LET found == scan_logs(logs_dir, present, installed_json, repo_json)
        IN /\ Command(line) = Word("refresh")
           /\ Turn(line, Did(scan_ops(logs_dir, found), "Found log files"))
           /\ log_files' = found

ViewerView ==
    \E line \in Lines \ {<<>>} :
        LET n == IntOf(Arguments(line))
        IN /\ Command(line) = Word("view")
           /\ Turn(line,
                   IF Arguments(line) = <<>> THEN Did({}, "Usage: view")
                   ELSE IF n.exc # "none" THEN Did({}, "File number must be an integer")
                   ELSE view_file_by_number(n.val, log_files, present))
           /\ UNCHANGED log_files

ViewerFilter ==
    \E line \in Lines \ {<<>>} :
        /\ Command(line) = Word("filter")
        /\ Turn(line,
                IF Arguments(line) = <<>> THEN Did({}, "Usage: filter")
                ELSE display_log_list(log_files, Arguments(line), present))
        /\ UNCHANGED log_files

ViewerSearch ==
    \E line \in Lines \ {<<>>} :
        /\ Command(line) = Word("search")
        /\ Turn(line,
                IF Arguments(line) = <<>> THEN Did({}, "Usage: search")
                ELSE search_logs(Arguments(line), log_files, present))
        /\ UNCHANGED log_files

\* os.system('clear'), then the banner
ViewerClear ==
    \E line \in Lines \ {<<>>} :
        /\ Command(line) \in {Word("clear"), Word("cls")}
        /\ Turn(line, Did({Op("system", "clear")}, "banner"))
        /\ UNCHANGED log_files

ViewerUnknown ==
    \E line \in Lines \ {<<>>} :
        /\ Command(line) \notin Known
        /\ Turn(line,
                Printing(<<Open("bold red"), Word("ERROR:"), Close("bold red"),
                           Word(" Unknown command: "), Command(line)>>,
                         {}, Did({}, "Unknown command")))
        /\ UNCHANGED log_files

\* Ctrl-C at the prompt: except KeyboardInterrupt
ViewerInterrupt ==
    /\ vpc = "prompt"
    /\ vpc' = "prompt"
    /\ vin' = <<Word("^C")>>
    /\ vout' = "Interrupted. Type 'exit' to quit."
    /\ Calls({})
    /\ UNCHANGED <<log_files, vfault, present>>
    /\ ViewerFrame

\* the end of the input: console.input raises EOFError
ViewerEOF ==
    /\ Turn(<<Word("^D")>>, Raised("EOFError", <<Word("EOF when reading a line")>>, {}))
    /\ UNCHANGED log_files

\* another program removes a log file
LogRemoved ==
    \E path \in present :
        /\ vpc \in {"new", "prompt"}
        /\ present' = present \ {path}
        /\ UNCHANGED <<cmdVars, catalogVars, clockVars, raceVars, started,
                       vpc, logs_dir, log_files, fsops, vin, vout, vfault>>

NextViewer ==
    \/ ViewerStart
    \/ ViewerBlank
    \/ ViewerExit
    \/ ViewerHelp
    \/ ViewerList
    \/ ViewerRefresh
    \/ ViewerView
    \/ ViewerFilter
    \/ ViewerSearch
    \/ ViewerClear
    \/ ViewerUnknown
    \/ ViewerInterrupt
    \/ ViewerEOF
    \/ LogRemoved

SpecViewer == InitViewer /\ [][NextViewer]_vars

\* ------------------------------------------------------------------------
\* Properties
\* ------------------------------------------------------------------------

Invoked == args.command # "none"

\* the file holds a JSON object the tool can read
IsRegistry(f) == f.kind = "object" /\ f.r

\* the dict the tool loads from a registry file
Registry(f) == json_load(f).val.pairs

\* how often the text of the file writes the key n
EntryCount(f, n) == Cardinality({i \in DOMAIN f.pairs : f.pairs[i][1] = n})

AlreadyInstalled(n) == <<n \o " is already installed!">>
NotInstalled(n) == <<n \o " is not installed!">>
NotFound(n) == <<"Package '" \o n \o "' is not found">>
NoPackages == <<"No packages installed">>

\* C1: a command run with dry_run set leaves the registry file on disk as it
\* was when the command was dispatched, whatever the command, the quiet flag
\* and the starting file (empty, non-empty, malformed, or missing and just
\* created by the module-level init_db).
C1_DryRunNeverMutates ==
    (Invoked /\ args.dry_run) => installed_json = initialised

\* C2, in the two cases the claim names: with dry_run and quiet both set, a
\* hook of a name that is not installed and a remove of a name that is
\* installed print nothing and leave the registry as it was.
C2_QuietWins ==
    (args.dry_run /\ args.quiet /\ IsRegistry(before)
        /\ \/ /\ args.command = "hook"
              /\ args.package_name \notin Keys(Registry(before))
           \/ /\ args.command = "remove"
              /\ args.package_name \in Keys(Registry(before))) =>
        (stdout = <<>> /\ installed_json = before)

C4_HookTerminal ==
    (args.command = "hook" /\ IsRegistry(before)
        /\ args.package_name \in Keys(Registry(before))) =>
        /\ fault = "none"
        /\ stdout = AlreadyInstalled(args.package_name)
        /\ installed_json = before
        /\ (hooked.name = args.package_name =>
               EntryCount(installed_json, args.package_name) = 1)

C4_Witness ==
    /\ args.command = "hook"
    /\ hooked.name = "alpha"
    /\ args.package_name = "alpha"
    /\ args.dry_run /\ args.quiet
    /\ stdout = AlreadyInstalled("alpha")
    /\ EntryCount(installed_json, "alpha") = 1

\* C5 as claimed: a remove without dry_run of a name the registry (empty or
\* not) does not contain leaves the file unchanged and prints "not found".
C5_RemoveAbsentReportsNotFound ==
    (args.command = "remove" /\ ~args.dry_run /\ IsRegistry(before)
        /\ args.package_name \notin Keys(Registry(before))) =>
        /\ installed_json = before
        /\ stdout = NotFound(args.package_name)

\* C5 amended: a remove without dry_run of a name the registry does not
\* contain leaves the file unchanged; it prints "not found" when the registry
\* holds other packages and "No packages installed" when it is empty.
C5_RemoveAbsentUnchanged ==
    (args.command = "remove" /\ ~args.dry_run /\ IsRegistry(before)
        /\ args.package_name \notin Keys(Registry(before))) =>
        /\ fault = "none"
        /\ installed_json = before
        /\ stdout = IF Registry(before) = <<>> THEN NoPackages
                    ELSE NotFound(args.package_name)

C5_Witness ==
    /\ args.command = "remove" /\ ~args.dry_run
    /\ args.package_name = "alpha"
    /\ IsRegistry(before)
    /\ Keys(Registry(before)) = {"beta"}
    /\ stdout = NotFound("alpha")

\* C6: a hook of n on a registry R without n, followed by a remove of n,
\* both without dry_run, leaves the registry mapping equal to R.
C6_HookRemoveRoundTrip ==
    (args.command = "remove" /\ ~args.dry_run
        /\ hooked.name = args.package_name) =>
        /\ fault = "none"
        /\ IsRegistry(installed_json)
        /\ AsMap(Registry(installed_json)) = hooked.registry

C6_Witness ==
    /\ args.command = "remove" /\ ~args.dry_run
    /\ hooked.name = "alpha" /\ args.package_name = "alpha"
    /\ hooked.registry # {}
    /\ AsMap(Registry(installed_json)) = hooked.registry
    /\ installed_json # before

\* C7 as claimed: from a directory without a registry file, hook alpha; list;
\* remove alpha; remove alpha, all without flags: the file is created and
\* holds alpha with version "1.0"; list prints "alpha - version 1.0"; the
\* registry is {} again; the second remove prints "not found" and the file
\* is still {}.
C7_ScenarioNotFound ==
    /\ scenario = 1 =>
          /\ IsRegistry(installed_json)
          /\ "alpha" \in Keys(Registry(installed_json))
          /\ Lookup(Registry(installed_json), "alpha").version = "1.0"
    /\ scenario = 2 =>
          \E i \in DOMAIN stdout : stdout[i] = "alpha - version 1.0"
    /\ scenario = 3 => installed_json = EmptyRegistryFile
    /\ scenario = 4 =>
          /\ stdout = NotFound("alpha")
          /\ installed_json = EmptyRegistryFile

\* C7 amended: the same scenario, where the second remove, finding the
\* registry empty, prints "No packages installed" and the file is still {}.
C7_Scenario ==
    /\ scenario = 1 =>
          /\ fault = "none"
          /\ IsRegistry(installed_json)
          /\ "alpha" \in Keys(Registry(installed_json))
          /\ Lookup(Registry(installed_json), "alpha").version = "1.0"
    /\ scenario = 2 =>
          /\ fault = "none"
          /\ \E i \in DOMAIN stdout : stdout[i] = "alpha - version 1.0"
    /\ scenario = 3 =>
          /\ fault = "none"
          /\ installed_json = EmptyRegistryFile
    /\ scenario = 4 =>
          /\ fault = "none"
          /\ stdout = NoPackages
          /\ installed_json = EmptyRegistryFile

C7_Witness ==
    /\ scenario = 4
    /\ args = Args("remove", "alpha", FALSE, FALSE)
    /\ before = EmptyRegistryFile

\* C8: after hook and remove invocations without dry_run on a registry file,
\* for every name: is_installed holds exactly when the name is a key of the
\* loaded registry, exactly when it was in the starting registry or hooked
\* and has not been removed since; the file keeps no entry of a removed name.
C8_InstalledIffRequested ==
    plain =>
        /\ IsRegistry(installed_json)
        /\ \A n \in Names :
              /\ is_installed(n, installed_json) =
                    [exc |-> "none", val |-> n \in requested]
              /\ n \in Keys(Registry(installed_json)) <=> n \in requested
              /\ n \notin requested => EntryCount(installed_json, n) = 0

C8_Witness ==
    /\ plain
    /\ args.command = "remove" /\ args.package_name = "beta"
    /\ hooked.name = "alpha"
    /\ "beta" \in Keys(Registry(before))
    /\ requested = {"alpha"}

\* C9: the module-level init_db leaves {} in a new file when there was no
\* file, and leaves an existing file as it was, whatever it holds.
C9_InitDb ==
    Invoked =>
        /\ before.kind = "missing" => initialised = EmptyRegistryFile
        /\ before.kind # "missing" => initialised = before

C9_Witness ==
    /\ args.command = "run"
    /\ before.kind = "missing"
    /\ initialised = EmptyRegistryFile
    /\ installed_json = EmptyRegistryFile

\* C10: is_installed returns False and does not raise when the registry file
\* is missing, unreadable or malformed, so that run on such a file ends
\* without an exception and prints "not installed".
C10_IsInstalledNeverRaises ==
    (args.command = "run"
        /\ (before.kind \in {"missing", "malformed"} \/ ~before.r)) =>
        /\ fault = "none"
        /\ stdout = NotInstalled(args.package_name)

\* C11: a registry file holding malformed JSON lets every command (hook,
\* run, list, remove) run to its end: no exception leaves the process.
C11_MalformedNeverFaults ==
    (Invoked /\ before.kind = "malformed") => fault = "none"

ReadDiagnostic == "File '" \o INSTALLED_JSON \o "' not found."

\* C12: when the registry file cannot be loaded (missing, empty or malformed
\* text), read_db does not raise, prints a diagnostic, and returns a value
\* that is not a mapping and of which the text "None" is a member.
C12_ReadDbSentinel ==
    (args.command \in {"list", "remove"} /\ initialised.kind = "malformed") =>
        /\ stdout # <<>> /\ stdout[1] = ReadDiagnostic
        /\ returned.t # "dict"
        /\ Contains("None", returned) = [exc |-> "none", val |-> TRUE]

\* C13: write_db replaces the file: once a command has passed a mapping d to
\* write_db, read_db of the file returns exactly d, and no key of the file's
\* earlier content that is not in d is left in it.
C13_WriteIsFullReplace ==
    written.t = "dict" =>
        /\ read_db(installed_json) = [val |-> written, out |-> <<>>]
        /\ \A k \in Names :
              (k \in Keys(Registry(initialised)) /\ k \notin Keys(written.pairs))
                  => EntryCount(installed_json, k) = 0

C13_Witness ==
    /\ written.t = "dict"
    /\ args.command = "remove" /\ args.package_name = "alpha"
    /\ initialised.fmt = "other"
    /\ Keys(Registry(initialised)) = {"alpha", "beta"}
    /\ Keys(written.pairs) = {"beta"}
    /\ installed_json.fmt = "indent2"

\* the top-level dict of a catalog file that loads as one
Catalog(f) == json_load(f).val.pairs

\* C14: get_package_info has three outcomes that can be told apart: the
\* metadata record when the name is a key under "packages"; None when the
\* catalog loads but has no "packages" key or the name is not under it; an
\* exception, and no return value, when the catalog file is missing or
\* malformed.
C14_GetPackageInfo ==
    lookup.name # "" =>
        /\ repo_json.kind \in {"missing", "malformed"} =>
              /\ lookup.exc # "none"
              /\ lookup.val = <<>>
        /\ repo_json.kind = "object" =>
              /\ lookup.exc = "none"
              /\ IF "packages" \in Keys(Catalog(repo_json))
                    /\ lookup.name \in Keys(Lookup(Catalog(repo_json), "packages"))
                 THEN lookup.val =
                        <<Lookup(Lookup(Catalog(repo_json), "packages"), lookup.name)>>
                 ELSE lookup.val = <<>>

C14_Witness ==
    /\ lookup.name = "alpha"
    /\ repo_json.kind = "malformed"
    /\ lookup.exc = "AttributeError"
    /\ lookup.out = <<"File '" \o REPO_JSON \o "' not found.">>

\* the success and information lines an invocation with package name n on
\* the registry file f can print: the hook and remove confirmations, the run
\* success line, the list output and the dry-run simulation messages
InfoLines(n, f) ==
    {"Successfully hooked '" \o n \o "'!",
     "Successfully removed " \o n \o " !",
     "Running " \o n,
     "[Dry Run] Would hook " \o n,
     "[Dry Run] Would run " \o n,
     "[Dry Run] Would remove " \o n,
     "[Dry Run] Would list packages and version"}
    \cup {k \o " - version " \o Lookup(Registry(f), k).version : k \in Keys(Registry(f))}

\* C15: under quiet no command prints a success or information line, while
\* run still prints "not installed" for a name that is not installed.
C15_QuietSuppressesInfo ==
    (Invoked /\ args.quiet /\ IsRegistry(initialised)) =>
        /\ \A i \in DOMAIN stdout :
              stdout[i] \notin InfoLines(args.package_name, initialised)
        /\ (args.command = "run"
               /\ args.package_name \notin Keys(Registry(initialised)))
              => stdout = NotInstalled(args.package_name)

\* C16: run never changes the registry file, whatever the flags and whatever
\* the file holds; on a registry it ends normally and prints "not installed"
\* for a name that is not installed, even under dry_run, the simulation
\* message for an installed name under dry_run, and the success line otherwise.
C16_RunReadOnly ==
    args.command = "run" =>
        /\ installed_json = initialised
        /\ written = NotCalled
        /\ IsRegistry(initialised) =>
              /\ fault = "none"
              /\ stdout =
                    IF args.package_name \notin Keys(Registry(initialised))
                    THEN NotInstalled(args.package_name)
                    ELSE IF args.dry_run
                         THEN <<"[Dry Run] Would run " \o args.package_name>>
                         ELSE <<"Running " \o args.package_name>>

\* run --dry-run of a name that is not installed, on a registry holding
\* another name
C16_Witness ==
    /\ args.command = "run"
    /\ args.dry_run
    /\ args.package_name = "alpha"
    /\ Keys(Registry(initialised)) = {"beta"}
    /\ stdout = NotInstalled("alpha")
    /\ installed_json = initialised

\* the line list prints for the record under k in the registry file f
ListLine(f, k) == k \o " - version " \o Lookup(Registry(f), k).version

\* C17: list never changes the registry file; on an empty registry it prints
\* "No packages installed." and nothing else, even under dry_run; on a
\* non-empty registry under dry_run it prints only the simulation message;
\* otherwise it prints exactly one "name - version v" line per record, none
\* missing and none twice.
C17_List ==
    (args.command = "list" /\ IsRegistry(initialised)) =>
        /\ installed_json = initialised
        /\ written = NotCalled
        /\ fault = "none"
        /\ Registry(initialised) = <<>> => stdout = <<"No packages installed.">>
        /\ (Registry(initialised) # <<>> /\ args.dry_run)
              => stdout = <<"[Dry Run] Would list packages and version">>
        /\ (Registry(initialised) # <<>> /\ ~args.dry_run) =>
              /\ Len(stdout) = Cardinality(Keys(Registry(initialised)))
              /\ \A k \in Keys(Registry(initialised)) :
                    Cardinality({i \in DOMAIN stdout :
                                    stdout[i] = ListLine(initialised, k)}) = 1

\* list of a registry of two records printed two different lines
C17_Witness ==
    /\ args.command = "list"
    /\ ~args.dry_run
    /\ Keys(Registry(initialised)) = {"alpha", "beta"}
    /\ Len(stdout) = 2
    /\ stdout[1] # stdout[2]

\* the records of the registry file f other than the one under n
Others(f, n) == {p \in AsMap(Registry(f)) : p[1] # n}

\* the last invocation was a remove that deleted a record and saved
RemoveWrote == args.command = "remove" /\ written.t = "dict"

\* C18: a hook that installed n leaves a registry that is the one it found
\* plus n's new record, and a remove that deleted n leaves the one it found
\* minus n's record; every record under another name is as it was.
C18_OnlyNamedKey ==
    /\ HookWrote =>
          /\ Others(installed_json, args.package_name)
                = AsMap(Registry(initialised))
          /\ AsMap(Registry(installed_json)) \ AsMap(Registry(initialised))
                = {<<args.package_name, new_entry(args.package_name)>>}
    /\ RemoveWrote =>
          /\ args.package_name \in Keys(Registry(initialised))
          /\ AsMap(Registry(installed_json))
                = Others(initialised, args.package_name)

\* remove beta deleted beta from a registry that also held a record of alpha
\* with a version of its own, which is still there
C18_Witness ==
    /\ RemoveWrote
    /\ args.package_name = "beta"
    /\ Keys(Registry(initialised)) = {"alpha", "beta"}
    /\ AsMap(Registry(installed_json)) = {<<"alpha", ForeignRecord>>}

\* the installed_at of the record under n in the registry file f
InstalledAt(f, n) == Lookup(Registry(f), n).installed_at

\* C19: installed_at is the time of the hook, so when two hooks in a row, run
\* at different times, each installed a name, the two records carry different
\* installed_at values.
C19_InstalledAtIsHookTime ==
    (HookWrote /\ hooked.name # "" /\ hooked.name # args.package_name
        /\ earlier # now) =>
        InstalledAt(installed_json, hooked.name)
            # InstalledAt(installed_json, args.package_name)

\* every concurrent process has run to its end
AllDone == \A p \in Procs : pc[p] = "done"

\* the concurrent processes hook the same name
SameName == \A p, q \in Procs : pargs[p].package_name = pargs[q].package_name

\* C20: when two concurrent hooks of the same name have both passed the
\* installed test before either opened the registry for writing, each goes on
\* to write, the later write replaces the earlier, and once both have ended
\* the registry file is the dump of what the processes held and writes that
\* name exactly once, with the record hook builds.
C20_RaceSameName ==
    (raced /\ SameName) =>
        /\ \A p \in Procs : pc[p] \in {"write_db", "dump", "done"}
        /\ AllDone =>
              /\ IsRegistry(installed_json)
              /\ \A p \in Procs : installed_json = json_dump(pdata[p], Truncated)
              /\ \A p \in Procs :
                    /\ EntryCount(installed_json, pargs[p].package_name) = 1
                    /\ Lookup(Registry(installed_json), pargs[p].package_name)
                          = new_entry(pargs[p].package_name)

\* both processes hooked alpha into a registry holding beta, both passed the
\* installed test before either wrote, and both have printed the confirmation
C20_Witness ==
    /\ raced
    /\ AllDone
    /\ \A p \in Procs :
          /\ pargs[p].package_name = "alpha"
          /\ pout[p] = <<"Successfully hooked 'alpha'!">>
    /\ Keys(Registry(installed_json)) = {"alpha", "beta"}
    /\ EntryCount(installed_json, "alpha") = 1

\* C21: whatever commands the log viewer has been given, the registry file and
\* the catalog file are as they were when it was started, and no file system
\* call of the viewer that changes what is at a path is made on either.
C21_ViewerReadOnly ==
    vpc # "idle" =>
        /\ installed_json = started[1]
        /\ repo_json = started[2]
        /\ \A o \in fsops :
              o.op \in WriteOps => o.path \notin {INSTALLED_JSON, REPO_JSON}

\* a viewer started on the directory that holds the registry and the catalog
\* has searched the log files it found there and printed a match
C21_Witness ==
    /\ vpc = "prompt"
    /\ logs_dir = "."
    /\ installed_json.kind = "object"
    /\ repo_json.kind = "object"
    /\ vin = <<Word("search"), Word("error")>>
    /\ vout = "preview"
    /\ LogOpen(AgentLog) \in fsops

\* C30: the viewer's read loop has ended only if the line read last was an
\* exit, quit or q command; after any other input the viewer is at its prompt.
C30_LoopEndsOnlyOnExit ==
    vpc \in {"exited", "crashed"} => (vin # <<>> /\ Command(vin) \in Leaves)

\* the lines write_db can print in its except clause
WriteDiagnostics == {"Data empty", "File '" \o INSTALLED_JSON \o "' not found"}

\* the last invocation called write_db on a file it could not open for writing
WriteFailed ==
    /\ written.t = "dict"
    /\ initialised.kind # "missing"
    /\ ~initialised.w

\* C22: when write_db fails on I/O, the command goes on without an exception
\* and a diagnostic of write_db has been printed.
C22_WriteFailureReported ==
    WriteFailed =>
        /\ fault = "none"
        /\ \E i \in DOMAIN stdout : stdout[i] \in WriteDiagnostics

\* C23: the command of an invocation loads the registry file at most once and
\* saves it at most once, and a hook or remove that changed the registry
\* loaded it exactly once and saved it exactly once.
C23_OneLoadOneSave ==
    Invoked =>
        /\ loads <= 1
        /\ saves <= 1
        /\ (HookWrote \/ RemoveWrote) => (loads = 1 /\ saves = 1)

\* the confirmation of remove
Removed(n) == <<"Successfully removed " \o n \o " !">>

\* C24: remove on a registry tests, in this order, for an empty registry
\* ("No packages installed"), for dry_run (the simulation message, whether or
\* not the name is present), for an absent name ("not found"), and otherwise
\* deletes the record, saves and confirms unless quiet; only that last branch
\* writes the registry.
C24_RemoveOrder ==
    (args.command = "remove" /\ IsRegistry(initialised)) =>
        LET n == args.package_name
            R == Registry(initialised)
        IN /\ fault = "none"
           /\ R = <<>> => (stdout = NoPackages /\ saves = 0)
           /\ (R # <<>> /\ args.dry_run)
                 => (stdout = <<"[Dry Run] Would remove " \o n>> /\ saves = 0)
           /\ (R # <<>> /\ ~args.dry_run /\ n \notin Keys(R))
                 => (stdout = NotFound(n) /\ saves = 0)
           /\ (R # <<>> /\ ~args.dry_run /\ n \in Keys(R))
                 => /\ saves = 1
                    /\ AsMap(Registry(installed_json)) = Others(initialised, n)
                    /\ stdout = IF args.quiet THEN <<>> ELSE Removed(n)
           /\ saves = 0 => installed_json = initialised

\* the fields of an installed package record
RecordFields == {"version", "installed_at", "source_type", "source_value", "install_path"}

\* the file holds a JSON object whose every key maps to a record
WellFormed(f) ==
    /\ f.kind = "object"
    /\ \A i \in DOMAIN f.pairs :
          /\ f.pairs[i][1] \in Names
          /\ DOMAIN f.pairs[i][2] \subseteq RecordFields

\* C25: an invocation of hook, run, list or remove, whatever its flags, that
\* found the registry file holding a JSON object of records leaves it holding
\* a JSON object of records; by induction so does every series of invocations.
C25_StaysWellFormed ==
    (Invoked /\ WellFormed(before)) => WellFormed(installed_json)

\* in a series of hooks and removes that started from an object, a remove
\* that followed a hook has rewritten the file
C25_Witness ==
    /\ RemoveWrote
    /\ hooked.name # ""
    /\ WellFormed(before)
    /\ plain
    /\ installed_json # before
    /\ WellFormed(installed_json)

\* C26: two concurrent hooks of distinct names can both load the registry and
\* pass the installed test before either saves; whenever they do, both run to
\* their end and report success, and the registry they leave never holds both
\* names: if it can be loaded it is the dump of one process and holds that
\* process's name only.
C26_LostUpdate ==
    (raced /\ ~SameName /\ AllDone) =>
        /\ \A p \in Procs :
              /\ pfault[p] = "none"
              /\ pout[p] = IF pargs[p].quiet THEN <<>>
                           ELSE <<"Successfully hooked '"
                                     \o pargs[p].package_name \o "'!">>
        /\ \E p \in Procs : pargs[p].package_name \notin Keys(Registry(installed_json))
        /\ IsRegistry(installed_json) =>
              \E p \in Procs :
                  /\ installed_json = json_dump(pdata[p], Truncated)
                  /\ \A q \in Procs :
                        pargs[q].package_name \in Keys(Registry(installed_json))
                            <=> pargs[q].package_name = pargs[p].package_name

\* hook alpha and hook beta ran together on a registry that held neither, both
\* printed their confirmation, and the registry holds beta but not alpha
C26_Witness ==
    /\ raced
    /\ AllDone
    /\ pargs[1].package_name = "alpha"
    /\ pargs[2].package_name = "beta"
    /\ pout[1] = <<"Successfully hooked 'alpha'!">>
    /\ pout[2] = <<"Successfully hooked 'beta'!">>
    /\ IsRegistry(installed_json)
    /\ Keys(Registry(installed_json)) = {"beta"}

\* C27: init_db has run before the arguments are parsed and the command is
\* dispatched, whatever the command and the flags: an invocation that found
\* no registry file created it holding {}, also when it was a run, a list, a
\* dry run, no command at all or a command line argparse rejected; an
\* invocation that found a file started from that file.
C27_InitBeforeDispatch ==
    Invoked =>
        /\ before.kind = "missing" =>
              /\ initialised = EmptyRegistryFile
              /\ installed_json.kind = "object"
              /\ saves = 0 => installed_json = EmptyRegistryFile
        /\ before.kind # "missing" => initialised = before

\* a command line argparse rejected has created the registry file
C27_Witness ==
    /\ args.command = "usage"
    /\ fault = "SystemExit"
    /\ before = MissingFile
    /\ installed_json = EmptyRegistryFile

\* C28: list and remove on a registry file that cannot be loaded end without
\* a fault, report "No packages installed" as for an empty registry, after the
\* line read_db prints, and do not write: a malformed file is left as it was;
\* a missing file has been created empty by init_db and is reported as empty.
C28_UnloadableIsEmpty ==
    args.command \in {"list", "remove"} =>
        LET message == IF args.command = "list" THEN "No packages installed."
                       ELSE "No packages installed"
        IN
        /\ before.kind = "malformed" =>
              /\ fault = "none"
              /\ stdout = <<ReadDiagnostic, message>>
              /\ saves = 0
              /\ installed_json = before
        /\ before.kind = "missing" =>
              /\ fault = "none"
              /\ stdout = <<message>>
              /\ saves = 0
              /\ installed_json = initialised

\* remove of a name from a malformed file, not a dry run
C28_Witness ==
    /\ args.command = "remove"
    /\ ~args.dry_run
    /\ before.kind = "malformed"
    /\ installed_json = before
    /\ stdout = <<ReadDiagnostic, "No packages installed">>

\* C29: when write_db could not write, hook and remove still end normally
\* and print their confirmation (nothing under quiet), and the file is as it
\* was: after a hook that printed "Successfully hooked" the name is not in
\* the registry, and after a remove the name is still there.
C29_SuccessWithoutSave ==
    (WriteFailed /\ args.command \in {"hook", "remove"}) =>
        LET n == args.package_name
        IN /\ fault = "none"
           /\ installed_json = initialised
           /\ stdout = IF args.quiet THEN <<>>
                       ELSE IF args.command = "hook"
                            THEN <<"Successfully hooked '" \o n \o "'!">>
                            ELSE Removed(n)
           /\ args.command = "hook" => n \notin Keys(Registry(installed_json))
           /\ args.command = "remove" => n \in Keys(Registry(installed_json))

\* hook alpha, not quiet, on a registry file that cannot be written
C29_Witness ==
    /\ WriteFailed
    /\ args = Args("hook", "alpha", FALSE, FALSE)
    /\ stdout = <<"Successfully hooked 'alpha'!">>
    /\ IsRegistry(installed_json)
    /\ "alpha" \notin Keys(Registry(installed_json))

====
